---- MODULE Spec2Model ----
(***************************************************************************)
(* The middleware classes of myapp/middleware.py, the view of              *)
(* myapp/views.py and the URLconf of myapp/urls.py.                        *)
(*                                                                         *)
(* Two specifications:                                                     *)
(*   Spec      one request travelling through a MIDDLEWARE chain built     *)
(*             from the classes of middleware.py around the URLconf and    *)
(*             the view of this application;                               *)
(*   SpecUnit  one middleware object called on its own, with an arbitrary  *)
(*             request and an arbitrary inner get_response, either through *)
(*             __call__ or through a direct call of process_response.      *)
(*                                                                         *)
(* middleware.py imports MiddlewareMixin from django.utils.deprecation and *)
(* is run by django.core.handlers; the dispatch of those two is modelled   *)
(* as Django documents it (default settings): MiddlewareMixin.__call__     *)
(* runs process_request, then get_response unless process_request returned *)
(* a response, then process_response; the handler wraps every middleware   *)
(* in convert_exception_to_response, which turns an exception raised       *)
(* inside a middleware into a fresh 500 response handed to the next outer  *)
(* middleware; process_view hooks run after the URL was resolved.          *)
(*                                                                         *)
(* Values.  An optional value (a header, a request attribute, a return     *)
(* value that may be None) is <<>> when absent and <<v>> when present.     *)
(* Header values that the code searches or lower-cases (Content-Type,      *)
(* Accept-Encoding) are sequences of one-character strings; the other      *)
(* header values are strings.  Bodies are sequences of bytes (0..255).     *)
(***************************************************************************)
EXTENDS Integers, Sequences, FiniteSets, TLC

VARIABLES chain, request, response, inner, phase, pos, entered, exited,
          raised, log, now

vars == <<chain, request, response, inner, phase, pos, entered, exited,
          raised, log, now>>

-----------------------------------------------------------------------------
(* Bounds of the model. *)

\* Longest MIDDLEWARE chain that is configured.
MaxChain == 2

\* Longest response body that is drawn.
MaxBody == 2

\* Last value of the clock read by time.time().
MaxTime == 1

-----------------------------------------------------------------------------
(* Optional values. *)

None == <<>>

Some(v) == <<v>>

-----------------------------------------------------------------------------
(* Text: str.lower() and the substring test of Python's  `in`. *)

UpperToLower ==
  [A |-> "a", B |-> "b", C |-> "c", D |-> "d", E |-> "e", F |-> "f",
   G |-> "g", H |-> "h", I |-> "i", J |-> "j", K |-> "k", L |-> "l",
   M |-> "m", N |-> "n", O |-> "o", P |-> "p", Q |-> "q", R |-> "r",
   S |-> "s", T |-> "t", U |-> "u", V |-> "v", W |-> "w", X |-> "x",
   Y |-> "y", Z |-> "z"]

Lower(s) ==
  [i \in 1..Len(s) |->
     IF s[i] \in DOMAIN UpperToLower THEN UpperToLower[s[i]] ELSE s[i]]

Contains(sub, s) ==
  \E i \in 0..(Len(s) - Len(sub)) : SubSeq(s, i + 1, i + Len(sub)) = sub

STR_gzip == <<"g","z","i","p">>

STR_text_html == <<"t","e","x","t","/","h","t","m","l">>

STR_text_css == <<"t","e","x","t","/","c","s","s">>

STR_application_javascript ==
  <<"a","p","p","l","i","c","a","t","i","o","n","/",
    "j","a","v","a","s","c","r","i","p","t">>

\* Content types and Accept-Encoding values that are drawn as inputs.
CT_html_utf8 == STR_text_html \o <<";"," ","c","h","a","r","s","e","t","=","u","t","f","-","8">>

CT_HTML_upper == <<"T","E","X","T","/","H","T","M","L">>

CT_json == <<"a","p","p","l","i","c","a","t","i","o","n","/","j","s","o","n">>

CT_plain == <<"t","e","x","t","/","p","l","a","i","n">>

AE_gzip_deflate == STR_gzip \o <<","," ","d","e","f","l","a","t","e">>

AE_deflate == <<"d","e","f","l","a","t","e">>

AE_GZIP_upper == <<"G","Z","I","P">>

ContentTypes ==
  {CT_html_utf8, STR_text_html, CT_HTML_upper, STR_text_css,
   STR_application_javascript, CT_json, CT_plain}

AcceptEncodings == {STR_gzip, AE_gzip_deflate, AE_deflate, AE_GZIP_upper, <<>>}

-----------------------------------------------------------------------------
(* gzip.compress(content): a gzip member (RFC 1952) around a deflate       *)
(* stream (RFC 1951).  The header carries the time of compression; the     *)
(* deflate stream is written in the stored-block encoding, which every     *)
(* inflater accepts; the trailer is the CRC-32 and the length of the       *)
(* input.                                                                  *)

RECURSIVE Le(_, _)
\* n as k little-endian bytes.
Le(n, k) == IF k = 0 THEN <<>> ELSE <<n % 256>> \o Le(n \div 256, k - 1)

RECURSIVE Bits(_, _)
\* n as k bits, least significant first.
Bits(n, k) == IF k = 0 THEN <<>> ELSE <<n % 2>> \o Bits(n \div 2, k - 1)

RECURSIVE FromBits(_)
FromBits(b) == IF b = <<>> THEN 0 ELSE b[1] + 2 * FromBits(Tail(b))

XorBits(a, b) == [i \in 1..Len(a) |-> (a[i] + b[i]) % 2]

\* The reflected CRC-32 polynomial 0xEDB88320, least significant bit first.
CrcPoly ==
  Bits(800, 12) \o Bits(2952, 12) \o Bits(237, 8)

CrcShift(reg) ==
  LET shifted == [i \in 1..32 |-> IF i < 32 THEN reg[i + 1] ELSE 0]
  IN  IF reg[1] = 1 THEN XorBits(shifted, CrcPoly) ELSE shifted

RECURSIVE CrcShifts(_, _)
CrcShifts(reg, k) == IF k = 0 THEN reg ELSE CrcShifts(CrcShift(reg), k - 1)

RECURSIVE CrcUpdate(_, _)
CrcUpdate(reg, bytes) ==
  IF bytes = <<>> THEN reg
  ELSE LET next == CrcShifts(
                     XorBits(reg, Bits(bytes[1], 8) \o [i \in 1..24 |-> 0]), 8)
       IN  IF next[1] \in {0, 1} THEN CrcUpdate(next, Tail(bytes)) ELSE <<>>

\* CRC-32 of the bytes, as its 4 little-endian bytes.
Crc32(bytes) ==
  LET ones == [i \in 1..32 |-> 1]
      reg  == XorBits(CrcUpdate(ones, bytes), ones)
  IN  [k \in 1..4 |-> FromBits(SubSeq(reg, 8 * (k - 1) + 1, 8 * k))]

GzipHeader(mtime) == <<31, 139, 8, 0>> \o Le(mtime, 4) \o <<2, 255>>

DeflateStored(content) ==
  <<1>> \o Le(Len(content), 2) \o Le(65535 - Len(content), 2) \o content

GzipCompress(content, mtime) ==
  GzipHeader(mtime) \o DeflateStored(content) \o Crc32(content)
    \o Le(Len(content), 4)

\* gzip.decompress: the inverse reading, with every check an inflater makes.
GzipDecompress(data) ==
  LET n == IF Len(data) >= 13 THEN data[12] + 256 * data[13] ELSE 0
      body == SubSeq(data, 16, 15 + n)
      ok == /\ Len(data) = 23 + n
            /\ SubSeq(data, 1, 4) = <<31, 139, 8, 0>>
            /\ data[11] = 1
            /\ SubSeq(data, 14, 15) = Le(65535 - n, 2)
            /\ SubSeq(data, 16 + n, 19 + n) = Crc32(body)
            /\ SubSeq(data, 20 + n, 23 + n) = Le(n, 4)
  IN  [ok |-> ok, content |-> IF ok THEN body ELSE <<>>]

-----------------------------------------------------------------------------
(* Requests and responses. *)

\* The names under which the code reads and writes response headers, and
\* the key of the case-insensitive header mapping each of them denotes.
HeaderKey ==
  ("content-type" :> "content-type") @@
  ("Content-Type" :> "content-type") @@
  ("Content-Encoding" :> "content-encoding") @@
  ("Content-Length" :> "content-length") @@
  ("Cache-Control" :> "cache-control") @@
  ("Content-Security-Policy" :> "content-security-policy") @@
  ("X-Content-Type-Options" :> "x-content-type-options") @@
  ("Strict-Transport-Security" :> "strict-transport-security")

HeaderKeys ==
  {"content-type", "content-encoding", "content-length", "cache-control",
   "content-security-policy", "x-content-type-options",
   "strict-transport-security"}

NoHeaders == [k \in HeaderKeys |-> None]

\* response[name]: the value, or KeyError (reported by HasHeader).
HasHeader(resp, name) == resp.headers[HeaderKey[name]] # None

GetItem(resp, name) == resp.headers[HeaderKey[name]][1]

\* response.get(name, alternate)
Get(resp, name, alternate) ==
  IF HasHeader(resp, name) THEN GetItem(resp, name) ELSE alternate

\* response[name] = value
SetItem(resp, name, value) ==
  [resp EXCEPT !.headers[HeaderKey[name]] = Some(value)]

\* request.META.get(key, default)
MetaGet(req, key, default) ==
  IF req.META[key] # None THEN req.META[key][1] ELSE default

\* getattr(request, name, default)
GetAttr(req, name, default) ==
  IF req[name] # None THEN req[name][1] ELSE default

\* A fresh HttpRequest: resolver_match is None and none of the attributes
\* the middleware add is set.
HttpRequest(method, path, accept_encoding) ==
  [method |-> method, path |-> path,
   META |-> [HTTP_ACCEPT_ENCODING |-> accept_encoding,
             REMOTE_ADDR |-> Some("127.0.0.1")],
   resolver_match |-> None,
   start_time |-> None,
   supports_gzip |-> None,
   custom_cache_control |-> None]

\* HttpResponse(content, content_type=..., status=...)
HttpResponse(content, content_type, status) ==
  [status_code |-> status,
   headers |-> [NoHeaders EXCEPT !["content-type"] = Some(content_type)],
   content |-> content]

\* What a handler method did: the request as it left it, the value it
\* returned (None for a method that returns nothing), the exception it
\* raised ("" for none) and the lines it logged.
Returned(req, resp, lines) ==
  [request |-> req, response |-> resp, raised |-> "", log |-> lines]

Raised(req, exc) ==
  [request |-> req, response |-> None, raised |-> exc, log |-> <<>>]

-----------------------------------------------------------------------------
(* RequestResponseLoggerMiddleware *)

RequestResponseLoggerMiddleware_process_request(req, t) ==
  Returned([req EXCEPT !.start_time = Some(t)], None,
           <<[msg |-> "Incoming Request", method |-> req.method,
              path |-> req.path,
              addr |-> MetaGet(req, "REMOTE_ADDR", None)]>>)

RequestResponseLoggerMiddleware_process_response(req, resp, t) ==
  IF ~HasHeader(resp, "content-type") THEN Raised(req, "KeyError")
  ELSE IF req.start_time = None THEN Raised(req, "AttributeError")
  ELSE Returned(req, Some(resp),
                <<[msg |-> "Outgoing Response", status |-> resp.status_code,
                   content_type |-> GetItem(resp, "content-type"),
                   elapsed |-> t - req.start_time[1]]>>)

-----------------------------------------------------------------------------
(* SecurityMiddleware: the part of __call__ after get_response returned. *)

CSP_VALUE == "default-src 'self'"

XCTO_VALUE == "nosniff"

HSTS_VALUE == "max-age=31536000; includeSubDomains"

\* SecurityMiddleware.__call__ keeping the headers the response came with
\* (setdefault instead of assignment).
SecurityMiddleware_call_setdefault(req, resp) ==
  LET keep(r, name, value) ==
        IF HasHeader(r, name) THEN r ELSE SetItem(r, name, value)
  IN  Returned(req,
        Some(keep(keep(keep(resp,
          "Content-Security-Policy", CSP_VALUE),
          "X-Content-Type-Options", XCTO_VALUE),
          "Strict-Transport-Security", HSTS_VALUE)),
        <<>>)

SecurityMiddleware_call(req, resp) ==
  Returned(req,
    Some(SetItem(SetItem(SetItem(resp,
      "Content-Security-Policy", CSP_VALUE),
      "X-Content-Type-Options", XCTO_VALUE),
      "Strict-Transport-Security", HSTS_VALUE)),
    <<>>)

-----------------------------------------------------------------------------
(* RateLimitingMiddleware, CustomAuthenticationMiddleware,                 *)
(* IPWhitelistMiddleware: process_request is `pass`, process_response      *)
(* returns the response.                                                   *)

Stub_process_request(req) == Returned(req, None, <<>>)

Stub_process_response(req, resp) == Returned(req, Some(resp), <<>>)

-----------------------------------------------------------------------------
(* PerformanceMonitoringMiddleware *)

PerformanceMonitoringMiddleware_process_view(req, t) ==
  Returned([req EXCEPT !.start_time = Some(t)], None, <<>>)

PerformanceMonitoringMiddleware_process_response(req, resp, t) ==
  IF req.resolver_match # None
  THEN IF req.start_time = None THEN Raised(req, "AttributeError")
       ELSE Returned(req, Some(resp),
                     <<[msg |-> "View function took",
                        url_name |-> req.resolver_match[1].url_name,
                        elapsed |-> t - req.start_time[1]]>>)
  ELSE IF req.start_time = None THEN Raised(req, "AttributeError")
       ELSE Returned(req, Some(resp),
                     <<[msg |-> "No URL match found",
                        elapsed |-> t - req.start_time[1]]>>)

-----------------------------------------------------------------------------
(* CompressionMiddleware *)

\* process_request taking every client to support gzip.
CompressionMiddleware_process_request_always(req) ==
  Returned([req EXCEPT !.supports_gzip = Some(TRUE)], None, <<>>)

CompressionMiddleware_process_request(req) ==
  Returned(
    [req EXCEPT !.supports_gzip =
       Some(Contains(STR_gzip, MetaGet(req, "HTTP_ACCEPT_ENCODING", <<>>)))],
    None, <<>>)

is_compressible(resp) ==
  LET content_type == Lower(Get(resp, "Content-Type", <<>>))
  IN  \/ Contains(STR_text_html, content_type)
      \/ Contains(STR_text_css, content_type)
      \/ Contains(STR_application_javascript, content_type)

should_compress(req, resp) ==
  GetAttr(req, "supports_gzip", FALSE) /\ is_compressible(resp)

\* compress_response computing Content-Length before it compresses.
compress_response_stale_length(resp, t) ==
  LET content == resp.content
      compressed_content == GzipCompress(content, t)
  IN  SetItem(SetItem([resp EXCEPT !.content = compressed_content],
        "Content-Encoding", "gzip"),
        "Content-Length", ToString(Len(content)))

\* t: the time gzip.compress writes into the gzip header.  response.content
\* of an HttpResponse is always bytes, so the str branch is never taken.
compress_response(resp, t) ==
  LET content == resp.content
      compressed_content == GzipCompress(content, t)
  IN  SetItem(SetItem([resp EXCEPT !.content = compressed_content],
        "Content-Encoding", "gzip"),
        "Content-Length", ToString(Len(compressed_content)))

CompressionMiddleware_process_response(req, resp, t) ==
  IF should_compress(req, resp)
  THEN Returned(req, Some(compress_response(resp, t)), <<>>)
  ELSE Returned(req, Some(resp), <<>>)

-----------------------------------------------------------------------------
(* CacheControlMiddleware *)

DEFAULT_MAX_AGE == 3600

DefaultCacheControl ==
  [max_age |-> DEFAULT_MAX_AGE, public |-> TRUE,
   no_cache |-> FALSE, no_store |-> FALSE]

CacheControlMiddleware_process_request(req) ==
  Returned([req EXCEPT !.custom_cache_control = Some(DefaultCacheControl)],
           None, <<>>)

RECURSIVE Join(_, _)
\* sep.join(parts)
Join(sep, parts) ==
  IF parts = <<>> THEN ""
  ELSE IF Len(parts) = 1 THEN parts[1]
  ELSE parts[1] \o sep \o Join(sep, Tail(parts))

\* build_cache_control_header joining with "," in place of ", ".
build_cache_control_header_comma(settings) ==
  LET has(k) == k \in DOMAIN settings
      p1 == IF has("max_age")
            THEN <<"max-age=" \o ToString(settings["max_age"])>> ELSE <<>>
      p2 == IF has("public") /\ settings["public"]
            THEN <<"public">> ELSE <<>>
      p3 == IF has("no_cache") /\ settings["no_cache"]
            THEN <<"no-cache">> ELSE <<>>
      p4 == IF has("no_store") /\ settings["no_store"]
            THEN <<"no-store">> ELSE <<>>
  IN  Join(",", p1 \o p2 \o p3 \o p4)

build_cache_control_header(settings) ==
  LET has(k) == k \in DOMAIN settings
      p1 == IF has("max_age")
            THEN <<"max-age=" \o ToString(settings["max_age"])>> ELSE <<>>
      p2 == IF has("public") /\ settings["public"]
            THEN <<"public">> ELSE <<>>
      p3 == IF has("no_cache") /\ settings["no_cache"]
            THEN <<"no-cache">> ELSE <<>>
      p4 == IF has("no_store") /\ settings["no_store"]
            THEN <<"no-store">> ELSE <<>>
  IN  Join(", ", p1 \o p2 \o p3 \o p4)

\* process_response testing `is not None` in place of the truth value.
CacheControlMiddleware_process_response_is_not_None(req, resp) ==
  IF req.custom_cache_control # None
  THEN Returned(req,
         Some(SetItem(resp, "Cache-Control",
                build_cache_control_header(req.custom_cache_control[1]))),
         <<>>)
  ELSE Returned(req, Some(resp), <<>>)

CacheControlMiddleware_process_response(req, resp) ==
  LET cache_control_settings == GetAttr(req, "custom_cache_control", None)
  IN  \* `if cache_control_settings:` is false for None and for an empty dict
      IF cache_control_settings # None /\ DOMAIN cache_control_settings # {}
      THEN Returned(req,
             Some(SetItem(resp, "Cache-Control",
                          build_cache_control_header(cache_control_settings))),
             <<>>)
      ELSE Returned(req, Some(resp), <<>>)

-----------------------------------------------------------------------------
(* The classes, and the hooks each defines. *)

Logger == "RequestResponseLoggerMiddleware"

Security == "SecurityMiddleware"

RateLimiting == "RateLimitingMiddleware"

Performance == "PerformanceMonitoringMiddleware"

CustomAuthentication == "CustomAuthenticationMiddleware"

IPWhitelist == "IPWhitelistMiddleware"

Compression == "CompressionMiddleware"

CacheControl == "CacheControlMiddleware"

Middlewares ==
  {Logger, Security, RateLimiting, Performance, CustomAuthentication,
   IPWhitelist, Compression, CacheControl}

\* The classes that derive from MiddlewareMixin.
IsMixin(m) == m # Security

\* hasattr(self, "process_request")
HasProcessRequest(m) ==
  m \in {Logger, RateLimiting, CustomAuthentication, IPWhitelist,
         Compression, CacheControl}

\* hasattr(self, "process_view")
HasProcessView(m) == m = Performance

\* The classes with process_response, had IPWhitelistMiddleware none.
HasProcessResponse_IPWhitelist_without(m) ==
  m \in {Logger, RateLimiting, Performance, CustomAuthentication,
         Compression, CacheControl}

\* hasattr(self, "process_response")
HasProcessResponse(m) ==
  m \in {Logger, RateLimiting, Performance, CustomAuthentication,
         IPWhitelist, Compression, CacheControl}

process_request(m, req, t) ==
  CASE m = Logger -> RequestResponseLoggerMiddleware_process_request(req, t)
    [] m = Compression -> CompressionMiddleware_process_request(req)
    [] m = CacheControl -> CacheControlMiddleware_process_request(req)
    [] OTHER -> Stub_process_request(req)

process_view(m, req, t) ==
  PerformanceMonitoringMiddleware_process_view(req, t)

process_response(m, req, resp, t) ==
  CASE m = Logger ->
         RequestResponseLoggerMiddleware_process_response(req, resp, t)
    [] m = Performance ->
         PerformanceMonitoringMiddleware_process_response(req, resp, t)
    [] m = Compression -> CompressionMiddleware_process_response(req, resp, t)
    [] m = CacheControl -> CacheControlMiddleware_process_response(req, resp)
    [] OTHER -> Stub_process_response(req, resp)

\* What m's __call__ does before it calls get_response.
BeforeStage(m, req, t) ==
  IF IsMixin(m) /\ HasProcessRequest(m) THEN process_request(m, req, t)
  ELSE Returned(req, None, <<>>)

\* Whether m's __call__ does anything with the response of get_response.
HasAfterStage(m) == ~IsMixin(m) \/ HasProcessResponse(m)

\* What m's __call__ does with the response of get_response.
AfterStage(m, req, resp, t) ==
  IF IsMixin(m) THEN process_response(m, req, resp, t)
  ELSE SecurityMiddleware_call(req, resp)

-----------------------------------------------------------------------------
(* The application: urls.py and views.py, and the responses Django makes   *)
(* for a path that does not resolve and for an exception.                  *)

BOOKS_PATH == "/books/"

\* urlpatterns: path("books/", book_list, name="book_list")
Resolve(path) ==
  IF path = BOOKS_PATH THEN Some([url_name |-> "book_list"]) ELSE None

Paths == {BOOKS_PATH, "/missing/"}

ByteAlphabet == {60, 62}

RECURSIVE BytesUpTo(_)
BytesUpTo(n) ==
  IF n = 0 THEN {<<>>}
  ELSE LET shorter == BytesUpTo(n - 1)
       IN  shorter \cup {Append(b, x) : b \in shorter, x \in ByteAlphabet}

Bodies == BytesUpTo(MaxBody)

\* Renderings of book_list.html.
RenderedBodies == {<<60>>, <<60, 62>>}

\* book_list: render(request, "book_list.html", ...), a 200 text/html
\* response whose body is the rendered template.
book_list(req, rendered) == HttpResponse(rendered, CT_html_utf8, 200)

\* The response Django makes of Resolver404.
NotFoundResponse == HttpResponse(<<52, 48, 52>>, CT_html_utf8, 404)

\* The response Django makes of an exception.
ServerErrorResponse == HttpResponse(<<53, 48, 48>>, CT_html_utf8, 500)

-----------------------------------------------------------------------------
(* Spec: one request through the chain.                                    *)
(*   chain    settings.MIDDLEWARE, outermost first                         *)
(*   request  the request object, with the attributes set so far           *)
(*   response the response on its way out (None on the way in)             *)
(*   inner    the response body the view renders                           *)
(*   phase    "request" on the way in, "view", "response" on the way out,  *)
(*            "done" when the outermost handler has returned               *)
(*   pos      the middleware whose stage runs next                         *)
(*   entered  the middleware whose __call__ was entered, in order          *)
(*   exited   the middleware whose after stage ran, in order               *)
(*   raised   the exceptions raised, with the middleware and the stage     *)
(*   log      the lines logged                                             *)
(*   now      the clock                                                    *)

RECURSIVE ChainsOfLen(_)
ChainsOfLen(n) ==
  IF n = 0 THEN {<<>>}
  ELSE {Append(c, m) : c \in ChainsOfLen(n - 1), m \in Middlewares}

NoRepeat(c) == \A i, j \in 1..Len(c) : c[i] = c[j] => i = j

Chains ==
  {c \in UNION {ChainsOfLen(n) : n \in 0..MaxChain} : NoRepeat(c)}

Init ==
  /\ chain \in Chains
  /\ \E p \in Paths, ae \in {None} \cup {Some(a) : a \in AcceptEncodings} :
       request = HttpRequest("GET", p, ae)
  /\ response = None
  /\ inner \in {Some(b) : b \in RenderedBodies}
  /\ phase = "request"
  /\ pos = 1
  /\ entered = <<>>
  /\ exited = <<>>
  /\ raised = <<>>
  /\ log = <<>>
  /\ now = 0

\* time.time() does not go back.
Tick ==
  /\ phase \notin {"done", "unit"}
  /\ now < MaxTime
  /\ now' = now + 1
  /\ UNCHANGED <<chain, request, response, inner, phase, pos, entered,
                 exited, raised, log>>

\* Where the response goes after the stage at position p: to the stage
\* outside it, or to the client.
Outward(p) == IF p = 0 THEN "done" ELSE "response"

\* The middleware at pos is called: its before stage runs.  An exception
\* is converted at its boundary; a response returned by process_request
\* goes to its own process_response; otherwise get_response is called.
Before ==
  /\ phase = "request"
  /\ pos <= Len(chain)
  /\ LET m == chain[pos]
         r == BeforeStage(m, request, now)
     IN  /\ entered' = Append(entered, m)
         /\ request' = r.request
         /\ log' = log \o r.log
         /\ IF r.raised # ""
            THEN /\ raised' = Append(raised, [middleware |-> m,
                                              stage |-> "before",
                                              exception |-> r.raised])
                 /\ response' = Some(ServerErrorResponse)
                 /\ pos' = pos - 1
                 /\ phase' = Outward(pos - 1)
            ELSE IF r.response # None
            THEN /\ raised' = raised
                 /\ response' = r.response
                 /\ pos' = pos
                 /\ phase' = "response"
            ELSE /\ raised' = raised
                 /\ response' = response
                 /\ pos' = pos + 1
                 /\ phase' = "request"
  /\ UNCHANGED <<chain, inner, exited, now>>

RECURSIVE ViewHooks(_, _, _)
\* The process_view hooks of the chain from position i on, in order.
ViewHooks(i, req, t) ==
  IF i > Len(chain) THEN req
  ELSE ViewHooks(i + 1,
         IF HasProcessView(chain[i])
         THEN process_view(chain[i], req, t).request ELSE req, t)

\* The innermost get_response: the URL is resolved; a path that does not
\* resolve becomes a 404 response before any process_view hook is called;
\* otherwise resolver_match is set and the process_view hooks run.
ResolveRequest ==
  /\ phase = "request"
  /\ pos = Len(chain) + 1
  /\ LET match == Resolve(request.path)
     IN  IF match = None
         THEN /\ response' = Some(NotFoundResponse)
              /\ request' = request
              /\ pos' = Len(chain)
              /\ phase' = Outward(Len(chain))
         ELSE /\ response' = response
              /\ request' =
                   ViewHooks(1, [request EXCEPT !.resolver_match = match], now)
              /\ pos' = pos
              /\ phase' = "view"
  /\ UNCHANGED <<chain, inner, entered, exited, raised, log, now>>

\* The view is called and returns its response.
View ==
  /\ phase = "view"
  /\ response' = Some(book_list(request, inner[1]))
  /\ pos' = Len(chain)
  /\ phase' = Outward(Len(chain))
  /\ UNCHANGED <<chain, request, inner, entered, exited, raised, log, now>>

\* The position the response goes to when the after stage at p raised:
\* the exception is converted to a response at p's boundary.
AfterRaise(p) == p - 1

\* The after stage of the middleware at pos runs on the response.
After ==
  /\ phase = "response"
  /\ pos >= 1
  /\ LET m == chain[pos]
         r == AfterStage(m, request, response[1], now)
     IN  IF ~HasAfterStage(m)
         THEN /\ pos' = pos - 1
              /\ phase' = Outward(pos - 1)
              /\ UNCHANGED <<request, response, exited, raised, log>>
         ELSE /\ exited' = Append(exited, m)
              /\ request' = r.request
              /\ log' = log \o r.log
              /\ IF r.raised # ""
                 THEN /\ raised' = Append(raised, [middleware |-> m,
                                                   stage |-> "after",
                                                   exception |-> r.raised])
                      /\ response' = Some(ServerErrorResponse)
                      /\ pos' = AfterRaise(pos)
                      /\ phase' = Outward(AfterRaise(pos))
                 ELSE /\ raised' = raised
                      /\ response' = r.response
                      /\ pos' = pos - 1
                      /\ phase' = Outward(pos - 1)
  /\ UNCHANGED <<chain, inner, entered, now>>

Next == Tick \/ Before \/ ResolveRequest \/ View \/ After

Spec == Init /\ [][Next]_vars

-----------------------------------------------------------------------------
(* SpecUnit: one middleware object on its own.  chain holds the one class, *)
(* request the request it is called with, inner the response its           *)
(* get_response returns.  The object is called (UnitCall), or its          *)
(* process_response is called directly (UnitProcessResponse), possibly     *)
(* after its process_view (UnitProcessView).  An exception goes to the     *)
(* caller: response stays None and raised records it.                      *)

\* m(request) with get_response returning inner_resp: MiddlewareMixin's
\* __call__ for the classes that derive from it, SecurityMiddleware's own.
\* t1, t2: the clock in the before and in the after stage.
MiddlewareCall(m, req, inner_resp, t1, t2) ==
  LET pre == BeforeStage(m, req, t1)
  IN  IF pre.raised # "" THEN pre
      ELSE LET resp == IF pre.response # None THEN pre.response[1]
                       ELSE inner_resp
               post == IF HasAfterStage(m)
                       THEN AfterStage(m, pre.request, resp, t2)
                       ELSE Returned(pre.request, Some(resp), <<>>)
           IN  [post EXCEPT !.log = pre.log \o post.log]

CacheControlKeys == {"max_age", "public", "no_cache", "no_store"}

MaxAges == {0, DEFAULT_MAX_AGE}

\* The dict with the keys that are given (None: the key is missing).
PolicyOf(max_age, public, no_cache, no_store) ==
  LET given == [max_age |-> max_age, public |-> public,
                no_cache |-> no_cache, no_store |-> no_store]
  IN  [k \in {x \in CacheControlKeys : given[x] # None} |-> given[k][1]]

\* The dicts a request may carry as custom_cache_control.
Policies ==
  {PolicyOf(ma, pu, nc, ns) :
     ma \in {None} \cup {Some(v) : v \in MaxAges},
     pu \in {None, Some(TRUE), Some(FALSE)},
     nc \in {None, Some(TRUE), Some(FALSE)},
     ns \in {None, Some(TRUE), Some(FALSE)}}

OptionalOf(S) == {None} \cup {Some(v) : v \in S}

BaseRequest == HttpRequest("GET", BOOKS_PATH, None)

BaseResponse == HttpResponse(<<60>>, CT_html_utf8, 200)

UnitRequests(m) ==
  CASE m \in {Logger, Performance} ->
         {[BaseRequest EXCEPT !.start_time = st, !.resolver_match = rm] :
            st \in OptionalOf({0}),
            rm \in OptionalOf({[url_name |-> "book_list"]})}
    [] m = Compression ->
         {[HttpRequest("GET", BOOKS_PATH, ae) EXCEPT !.supports_gzip = sg] :
            ae \in OptionalOf(AcceptEncodings), sg \in OptionalOf(BOOLEAN)}
    [] m = CacheControl ->
         {[BaseRequest EXCEPT !.custom_cache_control = p] :
            p \in OptionalOf(Policies)}
    [] m = Security ->
         {HttpRequest("GET", p, ae) :
            p \in Paths, ae \in OptionalOf(AcceptEncodings)}
    [] OTHER -> {BaseRequest}

UnitResponses(m) ==
  CASE m \in {Logger, Performance} ->
         {[BaseResponse EXCEPT !.status_code = st,
                               !.headers["content-type"] = ct] :
            st \in {200, 404, 500},
            ct \in OptionalOf({CT_html_utf8, CT_json})}
    [] m = Security ->
         {[BaseResponse EXCEPT
             !.status_code = st,
             !.headers["content-security-policy"] = csp,
             !.headers["x-content-type-options"] = xcto,
             !.headers["strict-transport-security"] = hsts] :
            st \in {200, 500},
            csp \in OptionalOf({"default-src *"}),
            xcto \in OptionalOf({"sniff"}),
            hsts \in OptionalOf({"max-age=0"})}
    [] m = Compression ->
         {[BaseResponse EXCEPT
             !.content = b,
             !.headers["content-type"] = ct,
             !.headers["content-encoding"] = ce,
             !.headers["content-length"] =
                IF cl THEN Some(ToString(Len(b))) ELSE None] :
            b \in Bodies,
            ct \in OptionalOf(ContentTypes),
            ce \in OptionalOf({"gzip"}),
            cl \in BOOLEAN}
    [] m = CacheControl ->
         {[BaseResponse EXCEPT !.headers["cache-control"] = cc] :
            cc \in OptionalOf({"no-store"})}
    [] OTHER -> {BaseResponse}

InitUnit ==
  /\ \E m \in Middlewares :
       /\ chain = <<m>>
       /\ request \in UnitRequests(m)
       /\ inner \in {Some(r) : r \in UnitResponses(m)}
  /\ response = None
  /\ phase = "unit"
  /\ pos = 1
  /\ entered = <<>>
  /\ exited = <<>>
  /\ raised = <<>>
  /\ log = <<>>
  /\ now = 0

RaisedBy(m, stage, r) ==
  IF r.raised = "" THEN <<>>
  ELSE <<[middleware |-> m, stage |-> stage, exception |-> r.raised]>>

UnitCall ==
  /\ phase = "unit"
  /\ \E t \in now..MaxTime :
       /\ now' = t
       /\ LET m == chain[1]
              r == MiddlewareCall(m, request, inner[1], now, t)
          IN  /\ request' = r.request
              /\ response' = r.response
              /\ raised' = RaisedBy(m, "call", r)
              /\ log' = r.log
              /\ entered' = <<m>>
              /\ exited' = IF HasAfterStage(m) THEN <<m>> ELSE <<>>
  /\ phase' = "done"
  /\ UNCHANGED <<chain, inner, pos>>

UnitProcessView ==
  /\ phase = "unit"
  /\ HasProcessView(chain[1])
  /\ request.start_time = None
  /\ request' = process_view(chain[1], request, now).request
  /\ UNCHANGED <<chain, response, inner, phase, pos, entered, exited,
                 raised, log, now>>

UnitProcessResponse ==
  /\ phase = "unit"
  /\ IsMixin(chain[1])
  /\ HasProcessResponse(chain[1])
  /\ \E t \in now..MaxTime :
       /\ now' = t
       /\ LET m == chain[1]
              r == process_response(m, request, inner[1], t)
          IN  /\ request' = r.request
              /\ response' = r.response
              /\ raised' = RaisedBy(m, "process_response", r)
              /\ log' = r.log
              /\ exited' = <<m>>
  /\ phase' = "done"
  /\ UNCHANGED <<chain, inner, pos, entered>>

NextUnit == UnitCall \/ UnitProcessView \/ UnitProcessResponse

SpecUnit == InitUnit /\ [][NextUnit]_vars

-----------------------------------------------------------------------------
(* Properties. *)

Reverse(seq) == [i \in 1..Len(seq) |-> seq[Len(seq) + 1 - i]]

\* SpecUnit: the object m was called, and the call is over.
Called(m) == phase = "done" /\ chain = <<m>> /\ entered = <<m>>

\* SpecUnit: m.process_response was called directly, and the call is over.
Processed(m) == phase = "done" /\ chain = <<m>> /\ entered = <<>>

ResponseHeader(key) == response[1].headers[key]

InnerHeader(key) == inner[1].headers[key]

\* C1 (Spec): the after stages that ran are those of the middleware whose
\* before stage was entered, in the reverse of the order of entry: while the
\* response travels out, exited is the reverse of the tail of entered; no
\* after stage runs on the way in; when the request is done, exited is the
\* reverse of entered.
C1_OnionSymmetry ==
  /\ Len(exited) <= Len(entered)
  /\ \A i \in 1..Len(exited) : exited[i] = entered[Len(entered) + 1 - i]
  /\ phase \in {"request", "view"} => exited = <<>>
  /\ phase = "done" => exited = Reverse(entered)

C1_Witness ==
  /\ phase = "done"
  /\ Len(entered) >= 2
  /\ exited = Reverse(entered)

\* C2 (SpecUnit): a response SecurityMiddleware returns carries the three
\* security headers with their fixed values, whatever the inner response
\* had for them.
C2_SecurityHeadersFixed ==
  Called(Security) /\ raised = <<>> =>
    /\ response # None
    /\ ResponseHeader("content-security-policy") = <<"default-src 'self'">>
    /\ ResponseHeader("x-content-type-options") = <<"nosniff">>
    /\ ResponseHeader("strict-transport-security")
         = <<"max-age=31536000; includeSubDomains">>

C2_Witness ==
  /\ Called(Security)
  /\ raised = <<>>
  /\ InnerHeader("content-security-policy") = <<"default-src *">>
  /\ InnerHeader("x-content-type-options") = <<"sniff">>
  /\ InnerHeader("strict-transport-security") = <<"max-age=0">>
  /\ inner[1].status_code = 500

C3_Case ==
  /\ Called(Compression)
  /\ request.META.HTTP_ACCEPT_ENCODING \in {<<STR_gzip>>, <<AE_gzip_deflate>>}
  /\ InnerHeader("content-type") \in {<<STR_text_html>>, <<CT_html_utf8>>}
  /\ inner[1].content # <<>>

\* C3 (SpecUnit): with Accept-Encoding: gzip and a text/html response with
\* a non-empty body, the response leaving CompressionMiddleware has
\* Content-Encoding gzip, a body that decompresses to the original body and
\* Content-Length equal to the length of the compressed body.
C3_CompressedResponse ==
  C3_Case =>
    /\ raised = <<>>
    /\ response # None
    /\ ResponseHeader("content-encoding") = <<"gzip">>
    /\ GzipDecompress(response[1].content)
         = [ok |-> TRUE, content |-> inner[1].content]
    /\ ResponseHeader("content-length")
         = <<ToString(Len(response[1].content))>>

C3_Witness ==
  /\ C3_Case
  /\ Len(inner[1].content) = 2
  /\ InnerHeader("content-encoding") = None
  /\ response # None
  /\ response[1].content # inner[1].content

C4_Case ==
  /\ Called(Compression)
  /\ request.META.HTTP_ACCEPT_ENCODING
       \in {None, <<<<>>>>, <<AE_deflate>>, <<AE_GZIP_upper>>}

\* C4 (SpecUnit): when the request does not advertise gzip in
\* Accept-Encoding, CompressionMiddleware returns the body it received and
\* adds no Content-Encoding header, for every content type.
C4_NoGzipNoChange ==
  C4_Case =>
    /\ raised = <<>>
    /\ response # None
    /\ response[1].content = inner[1].content
    /\ ResponseHeader("content-encoding") = InnerHeader("content-encoding")

C4_Witness ==
  /\ C4_Case
  /\ request.META.HTTP_ACCEPT_ENCODING = <<AE_deflate>>
  /\ InnerHeader("content-type") = <<STR_text_html>>
  /\ InnerHeader("content-encoding") = None
  /\ inner[1].content # <<>>
  /\ response # None

\* The parts of the Cache-Control value in their fixed order, each with
\* whether it applies to the policy.
C5_Parts(policy) ==
  <<[applies |-> "max_age" \in DOMAIN policy,
     text |-> IF "max_age" \notin DOMAIN policy THEN ""
              ELSE IF policy["max_age"] = 0 THEN "max-age=0"
              ELSE "max-age=3600"],
    [applies |-> "public" \in DOMAIN policy /\ policy["public"],
     text |-> "public"],
    [applies |-> "no_cache" \in DOMAIN policy /\ policy["no_cache"],
     text |-> "no-cache"],
    [applies |-> "no_store" \in DOMAIN policy /\ policy["no_store"],
     text |-> "no-store"]>>

RECURSIVE C5_Joined(_, _, _)
\* The applicable parts from the i-th on, ", " before each but the first.
C5_Joined(parts, i, first) ==
  IF i > Len(parts) THEN ""
  ELSE IF ~parts[i].applies THEN C5_Joined(parts, i + 1, first)
  ELSE (IF first THEN "" ELSE ", ") \o parts[i].text
       \o C5_Joined(parts, i + 1, FALSE)

\* C5 (SpecUnit): the Cache-Control value is the applicable parts, in the
\* order max-age, public, no-cache, no-store, joined with ", "; for the
\* policy of the before stage it is "max-age=3600, public".
C5_CacheControlValue ==
  /\ Called(CacheControl) =>
       /\ raised = <<>>
       /\ response # None
       /\ ResponseHeader("cache-control") = <<"max-age=3600, public">>
  /\ /\ Processed(CacheControl)
     /\ request.custom_cache_control # None
     /\ request.custom_cache_control # <<<<>>>>
     => /\ raised = <<>>
        /\ response # None
        /\ ResponseHeader("cache-control")
             = <<C5_Joined(C5_Parts(request.custom_cache_control[1]), 1, TRUE)>>

C5_Witness ==
  /\ Called(CacheControl)
  /\ request.custom_cache_control
       = <<[max_age |-> 3600, public |-> TRUE,
            no_cache |-> FALSE, no_store |-> FALSE]>>
  /\ InnerHeader("cache-control") = <<"no-store">>
  /\ response # None

\* C6 (Spec): when an after stage raised, the client gets a server-error
\* response that carries none of the security, cache-control or compression
\* headers.
C6_FaultGivesBareServerError ==
  phase = "done" /\ (\E i \in 1..Len(raised) : raised[i].stage = "after") =>
    /\ response # None
    /\ response[1].status_code = 500
    /\ ResponseHeader("content-security-policy") = None
    /\ ResponseHeader("x-content-type-options") = None
    /\ ResponseHeader("strict-transport-security") = None
    /\ ResponseHeader("cache-control") = None
    /\ ResponseHeader("content-encoding") = None

\* C7 (SpecUnit): a response that reaches CompressionMiddleware's after
\* stage with Content-Encoding set leaves it with the same body,
\* Content-Encoding and Content-Length.
C7_NeverCompressTwice ==
  /\ Called(Compression) \/ Processed(Compression)
  /\ InnerHeader("content-encoding") # None
  => /\ response # None
     /\ response[1].content = inner[1].content
     /\ ResponseHeader("content-encoding") = InnerHeader("content-encoding")
     /\ ResponseHeader("content-length") = InnerHeader("content-length")

\* C8 (SpecUnit): the logger's process_response, given a request without
\* start_time, raises nothing and returns the response it received.
C8_LoggerToleratesNoStartTime ==
  /\ Processed(Logger)
  /\ request.start_time = None
  /\ InnerHeader("content-type") # None
  => /\ raised = <<>>
     /\ response = inner

C9_NoPolicy == request.custom_cache_control = None

C9_EmptyPolicy == request.custom_cache_control = <<<<>>>>

\* C9 as claimed (SpecUnit): without a policy the response gets no
\* Cache-Control header; with an empty policy Cache-Control is set to the
\* empty string.
C9_EmptyPolicySetsEmptyHeader ==
  Processed(CacheControl) =>
    /\ C9_NoPolicy =>
         ResponseHeader("cache-control") = InnerHeader("cache-control")
    /\ C9_EmptyPolicy => ResponseHeader("cache-control") = <<"">>

\* C9 as amended (SpecUnit): without a policy, and with an empty policy
\* too, process_response returns the response as it received it: no
\* Cache-Control header is set.
C9_FalsyPolicySetsNoHeader ==
  Processed(CacheControl) /\ (C9_NoPolicy \/ C9_EmptyPolicy) =>
    /\ raised = <<>>
    /\ response = inner

C9_Witness ==
  /\ Processed(CacheControl)
  /\ C9_EmptyPolicy
  /\ InnerHeader("cache-control") = None
  /\ response # None
  /\ ResponseHeader("cache-control") = None

\* C10 (Spec): installed without RequestResponseLoggerMiddleware,
\* PerformanceMonitoringMiddleware's process_response never reads a
\* start_time that was not set: it raises nothing.
C10_PerformanceFindsStartTime ==
  \A i \in 1..Len(raised) :
    raised[i].middleware = Performance =>
      \E j \in 1..Len(chain) : chain[j] = Logger

====
